---- MODULE Spec2Model ----
(***************************************************************************)
(* A model of the AlerimAIM mining pool: the reward ledger                 *)
(* (RewardManager), the pool core (MiningPool), the variable-difficulty    *)
(* controller (VarDiffManager) and the stratum session layer               *)
(* (StratumServer / StratumClient).                                        *)
(*                                                                         *)
(* Amounts of money are big.Int values of about 2^66, beyond the integers  *)
(* of the model checker, so they are carried as numerals in base 2^15: a    *)
(* sequence of digits, least significant first, without leading zeros     *)
(* (the empty sequence is 0).  The big.Float steps of ProcessBlockReward   *)
(* are computed on these numerals with the precision and the rounding of   *)
(* math/big.                                                               *)
(***************************************************************************)
EXTENDS Integers, Sequences, FiniteSets, TLC

(***************************************************************************)
(* math/big: the integers.                                                 *)
(***************************************************************************)
Base == 2^15

Max(a, b) == IF a > b THEN a ELSE b

RECURSIVE BigFromNat(_)
BigFromNat(n) ==
    IF n = 0 THEN << >> ELSE <<n % Base>> \o BigFromNat(n \div Base)

RECURSIVE BigTrim(_)
BigTrim(a) ==
    IF a = << >> THEN << >>
    ELSE IF a[Len(a)] = 0 THEN BigTrim(SubSeq(a, 1, Len(a) - 1)) ELSE a

Digit(a, i) == IF i >= 1 /\ i <= Len(a) THEN a[i] ELSE 0

\* bits of a machine-sized n
RECURSIVE NatBitLen(_)
NatBitLen(n) == IF n = 0 THEN 0 ELSE 1 + NatBitLen(n \div 2)

\* (*Int).BitLen
BitLen(a) ==
    IF a = << >> THEN 0 ELSE 15 * (Len(a) - 1) + NatBitLen(a[Len(a)])

RECURSIVE BigAddC(_, _, _, _)
BigAddC(a, b, i, c) ==
    IF i > Len(a) /\ i > Len(b)
    THEN IF c = 0 THEN << >> ELSE <<c>>
    ELSE <<(Digit(a, i) + Digit(b, i) + c) % Base>>
         \o BigAddC(a, b, i + 1, (Digit(a, i) + Digit(b, i) + c) \div Base)

BigAdd(a, b) == BigAddC(a, b, 1, 0)

\* a - b for a >= b
RECURSIVE BigSubC(_, _, _, _)
BigSubC(a, b, i, c) ==
    IF i > Len(a) THEN << >>
    ELSE <<(a[i] - Digit(b, i) - c) % Base>>
         \o BigSubC(a, b, i + 1, IF a[i] - Digit(b, i) - c < 0 THEN 1 ELSE 0)

BigSub(a, b) == BigTrim(BigSubC(a, b, 1, 0))

\* a * m for 0 <= m <= 2^15
RECURSIVE BigMulC(_, _, _, _)
BigMulC(a, m, i, c) ==
    IF i > Len(a)
    THEN BigFromNat(c)
    ELSE <<(a[i] * m + c) % Base>>
         \o BigMulC(a, m, i + 1, (a[i] * m + c) \div Base)

BigMulSmall(a, m) == BigTrim(BigMulC(a, m, 1, 0))

\* long division by s, 0 < s <= 2^15, from the most significant digit
\* down: r is the running remainder, q the quotient digits found so far
RECURSIVE BigDivC(_, _, _, _, _)
BigDivC(a, s, i, r, q) ==
    IF i = 0
    THEN [q |-> q, r |-> r]
    ELSE BigDivC(a, s, i - 1, (r * Base + a[i]) % s,
                 <<(r * Base + a[i]) \div s>> \o q)

BigDivSmall(a, s) ==
    LET d == BigDivC(a, s, Len(a), 0, << >>) IN [q |-> BigTrim(d.q), r |-> d.r]

\* a * 2^k
BigShl(a, k) ==
    IF a = << >> THEN << >>
    ELSE [i \in 1..(k \div 15) |-> 0] \o BigMulSmall(a, 2^(k % 15))

\* floor(a / 2^k)
BigShr(a, k) ==
    IF k \div 15 >= Len(a) THEN << >>
    ELSE BigDivSmall(SubSeq(a, (k \div 15) + 1, Len(a)), 2^(k % 15)).q

\* bit i of a, the least significant being bit 1
BigBit(a, i) == (Digit(a, ((i - 1) \div 15) + 1) \div 2^((i - 1) % 15)) % 2

\* a < b, a = b, a > b as -1, 0, 1
RECURSIVE BigCmpFrom(_, _, _)
BigCmpFrom(a, b, i) ==
    IF i = 0 THEN 0
    ELSE IF a[i] < b[i] THEN -1
    ELSE IF a[i] > b[i] THEN 1
    ELSE BigCmpFrom(a, b, i - 1)

BigCmp(a, b) ==
    IF Len(a) < Len(b) THEN -1
    ELSE IF Len(a) > Len(b) THEN 1
    ELSE BigCmpFrom(a, b, Len(a))

BigZero == << >>

(***************************************************************************)
(* math/big: the floats of ProcessBlockReward.  A big.Float holding x is   *)
(* carried as the numeral of x * 2^f for a fixed number f of fraction      *)
(* bits; every operation rounds its exact result to prec significant bits, *)
(* to nearest, ties to even (big.Float's default mode ToNearestEven).      *)
(***************************************************************************)
\* (*Float).SetInt / SetInt64 with z.prec = 0: the precision becomes
\* max(bit length, 64)
FloatPrecOfInt(x) == Max(BitLen(x), 64)

\* round the numeral a to prec significant bits, ties to even
RoundToPrec(a, prec) ==
    LET d == BitLen(a) - prec
    IN  IF d <= 0 THEN a
        ELSE LET kept == BigShr(a, d)
                 half == BigBit(a, d) = 1
                 rest == \E i \in 1..(d - 1) : BigBit(a, i) = 1
                 odd  == BigBit(kept, 1) = 1
                 up   == half /\ (rest \/ odd)
             IN  BigShl(IF up THEN BigAdd(kept, <<1>>) ELSE kept, d)

\* fraction bits that leave the quotient x/s at least prec + 2 bits long
QuoFracBits(x, s, prec) == Max(0, prec + 2 - BitLen(x) + NatBitLen(s))

\* (*Float).Quo(x, y) of the integers x and s at precision prec: the
\* quotient is taken to two guard bits, a non-zero remainder is kept as a
\* sticky last bit, and the result is rounded once
FloatQuo(x, s, prec) ==
    LET f  == QuoFracBits(x, s, prec)
        d  == BigDivSmall(BigShl(x, f), s)
        qs == IF d.r = 0 \/ d.q = << >> \/ d.q[1] % 2 = 1
              THEN d.q ELSE <<d.q[1] + 1>> \o Tail(d.q)
    IN  [m |-> RoundToPrec(qs, prec), f |-> f]

\* (*Float).Mul(x, y) for a float x and the integer n, at precision prec
FloatMul(x, n, prec) == [m |-> RoundToPrec(BigMulSmall(x.m, n), prec), f |-> x.f]

\* (*Float).Int(nil): truncation toward zero
FloatInt(x) == BigShr(x.m, x.f)

(***************************************************************************)
(* Bounds of the model.                                                    *)
(***************************************************************************)
\* the usernames a client may authorize or submit under
WorkerSeq == <<"w1", "w2">>

Workers == {WorkerSeq[i] : i \in 1..Len(WorkerSeq)}

\* connections the listener accepts
NumClients == 2

Clients == 1..NumClients

\* most shares one worker holds pending in a round of the ledger when the
\* ledger is driven directly
MaxPending == 7

\* most rounds settled when the ledger is driven directly
MaxRounds == 1

\* most payout cycles
MaxCycles == 2

\* the last second at which the vardiff controller, driven directly,
\* records a share
MaxVdTime == 380

\* the intervals between the shares of a worker then (seconds)
Intervals == {5, 7, 10, 60, 120}

\* goroutines that write to sockets at the same time
NumThreads == 2

Threads == 1..NumThreads

\* the writes to the socket that one Encode of a message makes
MsgChunks == 2

\* blocks that peers send in one behaviour
MaxPeerBlocks == 1

\* record operations on the statistics in one behaviour
MaxRecords == 3

\* the seconds between two record operations
StatsSteps == {0, 300, 3601, 86401, 604801}

\* the seconds the clock moves between the two reads of MinerStats.AddShare
Elapsed == {0, 1}

\* most mining.submit requests in one behaviour
MaxSubmits == 2

\* most blocks the pool appends to the chain
MaxBlocks == 1

\* the clock stops here (seconds)
MaxTime == 120

\* job ids and nonces a client may put in mining.submit
MaxJobId == 2

MaxNonce == 1

JobIds == 1..MaxJobId

Nonces == 1..MaxNonce

\* candidate hashes a client may put in mining.submit, as numbers
Hashes == {4, 12, 24}

\* steps of the clock (seconds)
TickSteps == {120}

(***************************************************************************)
(* RewardManager (the reward ledger).                                      *)
(***************************************************************************)
VARIABLES
    pendingShares,  \* RewardManager.pendingShares: minerID -> shares
    balances,       \* RewardManager.balances: minerID -> balance (a
                    \* missing key and a zero balance read alike)
    settle,         \* the last step's round settlement, if it made one:
                    \* the pending shares and the balances it started from
    rounds,         \* rounds settled so far
    payout,         \* the last step's payout cycle, if it was one: the
                    \* workers a transaction was made for, its amounts,
                    \* the workers whose transaction the chain took, and
                    \* the balances the cycle started from
    cycles,         \* payout cycles run so far
    retry,          \* the workers whose transaction the chain refused in
                    \* the latest payout cycle
    paidTotal,      \* per worker: the amounts of all its transactions
                    \* the chain took
    creditedTotal,  \* per worker: all amounts added to its balance
    lastCredit      \* per worker: the round that last added to its
                    \* balance (0: none)

rewardVars == <<pendingShares, balances, settle, rounds>>

payoutVars == <<payout, cycles, retry, paidTotal, creditedTotal, lastCredit>>

\* NewRewardManager: BlockReward = 50 * 10^18
RECURSIVE Pow10(_, _)
\* a * 10^k
Pow10(a, k) == IF k = 0 THEN a ELSE BigMulSmall(Pow10(a, k - 1), 10)

BlockReward == Pow10(BigFromNat(50), 18)

\* NewRewardManager: PoolFee = 2.0, used as big.NewInt(int64(PoolFee))
PoolFee == 2

\* NewRewardManager: PayoutThreshold = 1 * 10^18
PayoutThreshold == Pow10(BigFromNat(1), 18)

NoSettle == [fresh |-> FALSE, shares |-> [w \in Workers |-> 0],
             before |-> [w \in Workers |-> BigZero]]

NoPayout == [fresh |-> FALSE, attempted |-> {}, accepted |-> {},
             retry |-> {},
             amount |-> [w \in Workers |-> BigZero],
             before |-> [w \in Workers |-> BigZero]]

RECURSIVE SumOver(_, _)
SumOver(f, S) ==
    IF S = {} THEN 0
    ELSE LET x == CHOOSE y \in S : TRUE IN f[x] + SumOver(f, S \ {x})

\* ProcessBlockReward, "Calculate total shares"
TotalShares(pending) == SumOver(pending, DOMAIN pending)

\* ProcessBlockReward, "Calculate pool fee"
PoolFeeAmount == BigDivSmall(BigMulSmall(BlockReward, PoolFee), 100).q

RemainingReward == BigSub(BlockReward, PoolFeeAmount)

\* ProcessBlockReward, "Calculate reward per share": a big.Float quotient
RewardPerShare(total) ==
    FloatQuo(RemainingReward, total,
             Max(FloatPrecOfInt(RemainingReward), 64))

\* ProcessBlockReward, the reward of a miner holding `shares` of `total`:
\* rewardPerShare * shares in big.Float, then truncated by Int
MinerReward(shares, total) ==
    LET per == RewardPerShare(total)
        prec == Max(FloatPrecOfInt(RemainingReward), 64)
    IN  FloatInt(FloatMul(per, shares, prec))

\* ProcessBlockReward without the clearing of the pending shares
ProcessBlockRewardKeep(pending, bal) ==
    LET total == TotalShares(pending)
    IN  [pendingShares |-> pending,
         balances |-> [w \in Workers |->
             IF total > 0 /\ pending[w] > 0
             THEN BigAdd(bal[w], MinerReward(pending[w], total))
             ELSE bal[w]]]

\* ProcessBlockReward: the ledger after a block was found
ProcessBlockReward(pending, bal) ==
    LET total == TotalShares(pending)
    IN  IF total = 0
        THEN [pendingShares |-> pending, balances |-> bal]
        ELSE [pendingShares |-> [w \in Workers |-> 0],
              balances |-> [w \in Workers |->
                  IF pending[w] > 0
                  THEN BigAdd(bal[w], MinerReward(pending[w], total))
                  ELSE bal[w]]]

\* the sums of credits after a settlement took the balances from bal to
\* newbal
CreditSums(ct, bal, newbal) ==
    [w \in Workers |-> BigAdd(ct[w], BigSub(newbal[w], bal[w]))]

\* the rounds of the last credit after round r took the balances from bal
\* to newbal
CreditRounds(lc, bal, newbal, r) ==
    [w \in Workers |-> IF newbal[w] # bal[w] THEN r ELSE lc[w]]

\* RewardConfig.MaturityDepth
MaturityDepth == 100

RECURSIVE PayoutLoopAll(_, _, _)
\* ProcessPayouts without the comparison with the payout threshold
PayoutLoopAll(ws, bal, ok) ==
    IF ws = << >>
    THEN [balances |-> bal, attempted |-> {}, accepted |-> {},
          amount |-> [w \in Workers |-> BigZero]]
    ELSE LET w == Head(ws)
         IN  IF w \in ok
             THEN LET r == PayoutLoopAll(Tail(ws),
                                         [bal EXCEPT ![w] = BigZero], ok)
                  IN  [r EXCEPT !.attempted = @ \cup {w},
                                !.accepted = @ \cup {w},
                                !.amount[w] = bal[w]]
             ELSE [balances |-> bal, attempted |-> {w}, accepted |-> {},
                   amount |-> [v \in Workers |->
                                  IF v = w THEN bal[w] ELSE BigZero]]

RECURSIVE PayoutLoopNoReset(_, _, _)
\* ProcessPayouts without the reset of the balance after the payout
PayoutLoopNoReset(ws, bal, ok) ==
    IF ws = << >>
    THEN [balances |-> bal, attempted |-> {}, accepted |-> {},
          amount |-> [w \in Workers |-> BigZero]]
    ELSE LET w == Head(ws)
         IN  IF BigCmp(bal[w], PayoutThreshold) >= 0
             THEN IF w \in ok
                  THEN LET r == PayoutLoopNoReset(Tail(ws), bal, ok)
                       IN  [r EXCEPT !.attempted = @ \cup {w},
                                     !.accepted = @ \cup {w},
                                     !.amount[w] = bal[w]]
                  ELSE [balances |-> bal, attempted |-> {w},
                        accepted |-> {},
                        amount |-> [v \in Workers |->
                                       IF v = w THEN bal[w] ELSE BigZero]]
             ELSE PayoutLoopNoReset(Tail(ws), bal, ok)

RECURSIVE PayoutLoop(_, _, _)
\* ProcessPayouts, the range over the balances from the workers ws on, in
\* that order; ok are the workers whose transaction
\* Blockchain.AddTransaction takes.  The first error ends the loop.
PayoutLoop(ws, bal, ok) ==
    IF ws = << >>
    THEN [balances |-> bal, attempted |-> {}, accepted |-> {},
          amount |-> [w \in Workers |-> BigZero]]
    ELSE LET w == Head(ws)
         IN  IF BigCmp(bal[w], PayoutThreshold) >= 0
             THEN IF w \in ok
                  THEN LET r == PayoutLoop(Tail(ws),
                                           [bal EXCEPT ![w] = BigZero], ok)
                       IN  [r EXCEPT !.attempted = @ \cup {w},
                                     !.accepted = @ \cup {w},
                                     !.amount[w] = bal[w]]
                  ELSE [balances |-> bal, attempted |-> {w},
                        accepted |-> {},
                        amount |-> [v \in Workers |->
                                       IF v = w THEN bal[w] ELSE BigZero]]
             ELSE PayoutLoop(Tail(ws), bal, ok)

(***************************************************************************)
(* blockchain: difficulty and proof of work.  Difficulties are scaled: the *)
(* 2^240 of InitialDifficulty is 16 here and the 2^256 of the hash space   *)
(* is 256, so that a difficulty d is met by the hashes below 256 / d.      *)
(***************************************************************************)
InitialDifficulty == 16

HashSpace == 256

\* Block.ValidatePoW: target = 2^256 / difficulty, hash < target
MeetsDifficulty(hash, diff) == hash < HashSpace \div diff

\* Blockchain.difficulty, set once by NewBlockchain
NetworkDifficulty == InitialDifficulty

\* MiningPool.difficulty: NewMiningPool sets it, and UpdateDifficulty
\* leaves it alone while the chain is shorter than 2016 blocks
PoolDifficulty == InitialDifficulty

(***************************************************************************)
(* VarDiffManager.                                                         *)
(***************************************************************************)
\* NewVarDiffManager: the configuration (seconds, percent)
TargetTime == 10

RetargetTime == 120

VariancePercent == 30

MaximumStep == 200

MinimumStep == 50

BufferSize == 30

MinimumDiff == InitialDifficulty

MaximumDiff == InitialDifficulty * 1000000

\* the miners of VarDiffManager: the usernames and "", the id under which
\* the accept loop asks for a new connection's difficulty
VdIds == Workers \cup {""}

NoTime == -1

NoVd == [exists |-> FALSE, currentDiff |-> 0, lastRetarget |-> NoTime,
         lastShareTime |-> NoTime, timeBuffer |-> << >>]

\* GetMinerDiff: the state of a miner, made on first use
GetMinerDiff(vds, id, t) ==
    IF vds[id].exists THEN vds[id]
    ELSE [exists |-> TRUE, currentDiff |-> MinimumDiff, lastRetarget |-> t,
          lastShareTime |-> NoTime, timeBuffer |-> << >>]

RECURSIVE SeqSum(_)
SeqSum(s) == IF s = << >> THEN 0 ELSE Head(s) + SeqSum(Tail(s))

RECURSIVE SeqSumSq(_)
SeqSumSq(s) == IF s = << >> THEN 0 ELSE Head(s) * Head(s) + SeqSumSq(Tail(s))

\* adjustDifficulty, "Skip adjustment if variance is too high":
\* variance > averageTime * VariancePercent / 100, with
\* averageTime = tot / n and variance = (n * sumsq - tot^2) / n^2
VarianceTooHigh(buf) ==
    LET n == Len(buf)
        tot == SeqSum(buf)
    IN  100 * (n * SeqSumSq(buf) - tot * tot) > VariancePercent * tot * n

\* adjustDifficulty, the clamped adjustment factor targetSeconds /
\* averageTime as a fraction <<numerator, denominator>>; a zero average
\* gives +Inf, which the upper limit clamps
Adjustment(buf) ==
    LET n == Len(buf)
        tot == SeqSum(buf)
    IN  IF tot = 0 \/ TargetTime * n * 100 > MaximumStep * tot
        THEN <<MaximumStep, 100>>
        ELSE IF TargetTime * n * 100 < MinimumStep * tot
        THEN <<MinimumStep, 100>>
        ELSE <<TargetTime * n, tot>>

\* adjustDifficulty, "Apply min/max limits"
ClampDiff(d) ==
    IF d < MinimumDiff THEN MinimumDiff
    ELSE IF d > MaximumDiff THEN MaximumDiff ELSE d

\* every candidate taken for a change
ChangedAlways(final, cur) == TRUE

\* adjustDifficulty, "Only update if difficulty changed significantly"
ChangedSignificantly(final, cur) ==
    100 * final < 99 * cur \/ 100 * final > 101 * cur

\* adjustDifficulty, "Calculate new difficulty": the integer part of
\* d * a / b, the product taken in two parts to stay within the integers
MulDiv(d, a, b) == (d \div b) * a + ((d % b) * a) \div b

\* adjustDifficulty: the miner's state after it, and whether the
\* difficulty changed (the stratum client is then notified)
AdjustDifficulty(m, t) ==
    IF Len(m.timeBuffer) < 2 \/ VarianceTooHigh(m.timeBuffer)
    THEN [vd |-> m, changed |-> FALSE]
    ELSE LET adj == Adjustment(m.timeBuffer)
             final == ClampDiff(MulDiv(m.currentDiff, adj[1], adj[2]))
         IN  IF ChangedSignificantly(final, m.currentDiff)
             THEN [vd |-> [m EXCEPT !.currentDiff = final,
                                    !.lastRetarget = t,
                                    !.timeBuffer = << >>],
                   changed |-> TRUE]
             ELSE [vd |-> m, changed |-> FALSE]

\* RecordShare, "Calculate time since last share": the interval buffer
PushInterval(buf, d) ==
    IF Len(buf) + 1 > BufferSize THEN Tail(Append(buf, d)) ELSE Append(buf, d)

\* RecordShare: the miner's state after a submission at time t
RecordShare(vds, id, t) ==
    LET m0 == GetMinerDiff(vds, id, t)
        m1 == [m0 EXCEPT
                 !.timeBuffer = IF m0.lastShareTime # NoTime
                                THEN PushInterval(@, t - m0.lastShareTime)
                                ELSE @,
                 !.lastShareTime = t]
    IN  IF t - m1.lastRetarget >= RetargetTime
        THEN AdjustDifficulty(m1, t)
        ELSE [vd |-> m1, changed |-> FALSE]

(***************************************************************************)
(* MinerStats (the per-miner statistics).                                  *)
(***************************************************************************)
VARIABLE
    minerStats    \* per worker: the counters of its MinerStats

\* NewMinerStats
NoStats == [TotalShares |-> 0, ValidShares |-> 0, InvalidShares |-> 0]

\* MinerStats.AddShare: the counters after a share was recorded
StatsAddShare(ms, valid) ==
    [TotalShares |-> ms.TotalShares + 1,
     ValidShares |-> ms.ValidShares + (IF valid THEN 1 ELSE 0),
     InvalidShares |-> ms.InvalidShares + (IF valid THEN 0 ELSE 1)]

VARIABLES
    minerHist,    \* the MinerStats of the first worker beyond its counters:
                  \* BlocksFound, LastBlock, the hashrates, Windows and
                  \* ShareHistory (an entry is <<Timestamp, Valid>>; its
                  \* Difficulty is never read)
    poolStats     \* the PoolStats: BlocksFound, LastBlockTime, Windows and
                  \* BlockHistory (an entry is the Height of the block)

statVars == <<minerHist, poolStats>>

VARIABLE
    chain         \* the Blockchain and the template: the number of the
                  \* chain's latest block (latest; 0 is the genesis block)
                  \* and of the block whose hash is the PreviousHash of
                  \* MiningPool.currentBlock (previous)

\* NewBlockchain, and the template StartMining creates
NewChain == [latest |-> 0, previous |-> 0]

\* the durations of the windows, in seconds: 1h, 24h, 7d
Durations == {3600, 86400, 604800}

DayWindow == 86400

\* "Keep last 1000 shares", "Keep last 1000 blocks"
HistorySize == 1000

\* "Use last 10 minutes of shares for current hashrate"
HashrateWindow == 600

\* a hashrate: a number of shares over a number of seconds
NoRate == [shares |-> 0, over |-> 1]

NewWindows(t) ==
    [d \in Durations |-> [Shares |-> 0, Blocks |-> 0, StartTime |-> t]]

\* NewMinerStats
NewMinerStats(t) ==
    [BlocksFound |-> 0, LastBlock |-> NoTime, CurrentHashrate |-> NoRate,
     AverageHashrate |-> NoRate, Windows |-> NewWindows(t),
     ShareHistory |-> << >>]

\* NewPoolStats
NewPoolStats(t) ==
    [BlocksFound |-> 0, LastBlockTime |-> NoTime, Windows |-> NewWindows(t),
     BlockHistory |-> << >>]

\* a history that is never cut
KeepAll(h) == h

\* "Maintain history size"
Keep(h) == IF Len(h) > HistorySize THEN Tail(h) ELSE h

\* MinerStats.AddShare, "Update time windows"
ShareWindows(ws, t) ==
    [d \in Durations |->
        IF t - ws[d].StartTime > d
        THEN [Shares |-> 1, Blocks |-> 0, StartTime |-> t]
        ELSE [ws[d] EXCEPT !.Shares = @ + 1]]

\* updateHashrate, the loop from the newest share back to the first one
\* before the cutoff: the number of shares it counts
RecentShares(h, cutoff) ==
    LET before == {i \in 1..Len(h) : h[i][1] < cutoff}
    IN  IF before = {} THEN Len(h)
        ELSE Len(h) - (CHOOSE i \in before : \A j \in before : j <= i)

\* updateHashrate, run when the clock reads t: oldestTime is set at the
\* first share the loop meets that is not before the cutoff
UpdateHashrate(ms, t) ==
    LET h == ms.ShareHistory
        cutoff == t - HashrateWindow
        recentShares == RecentShares(h, cutoff)
        oldestTime == h[Len(h)][1]
        day == ms.Windows[DayWindow]
        cur == IF recentShares > 0 /\ t - oldestTime > 0
               THEN [shares |-> recentShares, over |-> t - oldestTime]
               ELSE ms.CurrentHashrate
        avg == IF t - day.StartTime > 0
               THEN [shares |-> day.Shares, over |-> t - day.StartTime]
               ELSE ms.AverageHashrate
    IN  IF Len(h) < 2 THEN ms
        ELSE [ms EXCEPT !.CurrentHashrate = cur, !.AverageHashrate = avg]

\* MinerStats.AddShare beyond the counters: the clock reads t when it is
\* entered and t + e when updateHashrate reads it
HistAddShare(ms, valid, t, e) ==
    UpdateHashrate([ms EXCEPT
                      !.ShareHistory = Keep(Append(@, <<t, valid>>)),
                      !.Windows = ShareWindows(@, t)],
                   t + e)

\* MinerStats.AddBlock
HistAddBlock(ms, t) ==
    [ms EXCEPT !.BlocksFound = @ + 1,
               !.LastBlock = t,
               !.Windows = [d \in Durations |->
                              IF t - @[d].StartTime <= d
                              THEN [@[d] EXCEPT !.Blocks = @ + 1]
                              ELSE @[d]]]

\* PoolStats.AddBlock
PoolAddBlock(ps, height, t) ==
    [ps EXCEPT !.BlocksFound = @ + 1,
               !.LastBlockTime = t,
               !.BlockHistory = Keep(Append(@, height)),
               !.Windows = [d \in Durations |->
                              IF t - @[d].StartTime > d
                              THEN [@[d] EXCEPT !.StartTime = t,
                                                !.Blocks = 1]
                              ELSE [@[d] EXCEPT !.Blocks = @ + 1]]]

(***************************************************************************)
(* MiningPool and the stratum layer.                                       *)
(***************************************************************************)
VARIABLES
    now,          \* the wall clock (seconds)
    miners,       \* MiningPool.miners: minerID -> Miner (registered,
                  \* TotalShares, LastSeen)
    workerDiffs,  \* MiningPool.workerDiffs: minerID -> difficulty or nil
    currentBlock, \* MiningPool.currentBlock: the number of the template
    height,       \* blocks the pool appended to the chain
    updating,     \* goroutines "go p.UpdateWorkerDifficulty(minerID)" that
                  \* have not run yet, per minerID
    vd,           \* VarDiffManager.miners: minerID -> MinerVarDiff
    clients,      \* StratumServer.clients: username -> client (0: none)
    conn,         \* per client: "none" before accept, then "open",
                  \* "closed" once handleConnection has returned,
                  \* "killed" once the process has died
    minerID,      \* StratumClient.minerID ("" until authorize)
    cdiff,        \* StratumClient.difficulty
    told,         \* per client: the difficulty of the last
                  \* mining.set_difficulty written to it, if any
    sent,         \* the messages the last step wrote, in order
    acct,         \* per worker: AddShare calls made for it and submits
                  \* answered with result true, over the whole behaviour
    acceptedSet,  \* the <<job id, nonce>> of the submits answered true
    nsub,         \* mining.submit requests handled so far
    last          \* the mining.submit the last step handled, if it
                  \* handled one, and what was decided about it (the
                  \* StratumClient.lastShare it also sets is never read
                  \* and is left out)

poolVars == <<now, miners, workerDiffs, currentBlock, height, updating, vd,
              clients, conn, minerID, cdiff, told, sent, acct,
              acceptedSet, nsub, last>>

(***************************************************************************)
(* The mutexes: MiningPool.mu and, per client, StratumClient.mu, with the  *)
(* goroutines that take them on their way to a socket.                     *)
(***************************************************************************)
VARIABLES
    poolMu,       \* MiningPool.mu: the goroutine that holds it (0: none)
    writeMu,      \* per client: the goroutine that holds StratumClient.mu
    pc,           \* per goroutine: where it is (at), the clients it still
                  \* has to write to while it holds what it holds (todo),
                  \* the client it answers after MiningPool.mu is released
                  \* (reply) and whether it calls AddBlock (append)
    wire          \* per client: what was written to its socket, as
                  \* <<message, number of the write>>

lockVars == <<poolMu, writeMu, pc, wire>>

vars == <<pendingShares, balances, settle, rounds, payoutVars, minerStats,
          statVars, chain, lockVars, poolVars>>

NoDiff == -1

NoClient == 0

NoMiner == [registered |-> FALSE, TotalShares |-> 0, LastSeen |-> NoTime]

NoOp == [op |-> "none"]

Msg(to, kind, val) == [to |-> to, kind |-> kind, val |-> val]

\* StratumClient.sendError: the error object is always [20, message, nil]
ErrorMsg(to, message) == Msg(to, "error", <<20, message>>)

\* sendWork with the template before the one given
SendWorkStale(c, block, diffs) ==
    IF block = 0 THEN << >>
    ELSE <<Msg(c, "notify", <<block - 1, diffs[c]>>)>>

\* StratumClient.sendWork: nothing without a template, else mining.notify
\* with the template and the client's difficulty
SendWork(c, block, diffs) ==
    IF block = 0 THEN << >> ELSE <<Msg(c, "notify", <<block, diffs[c]>>)>>

\* handleSubscribe with the two messages the other way round
SubscribeReplyReversed(c, d) ==
    <<Msg(c, "set_difficulty", d), Msg(c, "subscribed", "subscription")>>

\* handleSubscribe: the response (the result [subscription id, agent]),
\* then "Set initial difficulty"
SubscribeReply(c, d) ==
    <<Msg(c, "subscribed", "subscription"), Msg(c, "set_difficulty", d)>>

\* handleAuthorize: "Send successful authorization response", then "Send
\* initial work"
AuthorizeReply(c, block, diffs) ==
    <<Msg(c, "result", TRUE)>> \o SendWork(c, block, diffs)

\* SubmitShare, "Notify all stratum clients of new work": sendWork for
\* every entry of the clients map, in the order ws the range over the map
\* happens to take
RECURSIVE Broadcast(_, _, _, _)
Broadcast(ws, reg, block, diffs) ==
    IF ws = << >> THEN << >>
    ELSE (IF reg[Head(ws)] = NoClient THEN << >>
          ELSE SendWork(reg[Head(ws)], block, diffs))
         \o Broadcast(Tail(ws), reg, block, diffs)

\* the orders a range over a map keyed by the workers can take
MapOrders == {WorkerSeq, <<WorkerSeq[2], WorkerSeq[1]>>}

\* Workers are named in the order the pool first hears of them: a name is
\* known once it is registered, authorized or has submitted.
Known(w) ==
    miners[w].registered \/ clients[w] # NoClient \/ vd[w] # NoVd

InOrder(w) ==
    \A i \in 1..Len(WorkerSeq) :
        WorkerSeq[i] = w => \A j \in 1..(i - 1) : Known(WorkerSeq[j])

\* the difficulty of the last mining.set_difficulty among msgs, per client
RECURSIVE Tell(_, _)
Tell(tl, msgs) ==
    IF msgs = << >> THEN tl
    ELSE Tell(IF Head(msgs).kind = "set_difficulty"
              THEN [tl EXCEPT ![Head(msgs).to] = Head(msgs).val] ELSE tl,
              Tail(msgs))

NoThread == 0

Idle == [at |-> "idle", todo |-> << >>, reply |-> NoClient, append |-> FALSE,
         n |-> 0]

\* a sendResponse that does not take the client's mutex
WriterFreeAlways(c) == TRUE

\* sendResponse, c.mu.Lock(): the mutex of the client can be taken
WriterFree(c) == writeMu[c] = NoThread

Init ==
    /\ pendingShares = [w \in Workers |-> 0]
    /\ balances = [w \in Workers |-> BigZero]
    /\ settle = NoSettle
    /\ rounds = 0
    /\ payout = NoPayout
    /\ cycles = 0
    /\ retry = {}
    /\ paidTotal = [w \in Workers |-> BigZero]
    /\ creditedTotal = [w \in Workers |-> BigZero]
    /\ lastCredit = [w \in Workers |-> 0]
    /\ minerStats = [w \in Workers |-> NoStats]
    /\ minerHist = NewMinerStats(0)
    /\ poolStats = NewPoolStats(0)
    /\ chain = NewChain
    /\ poolMu = NoThread
    /\ writeMu = [c \in Clients |-> NoThread]
    /\ pc = [th \in Threads |-> Idle]
    /\ wire = [c \in Clients |-> << >>]
    /\ now = 0
    /\ miners = [w \in Workers |-> NoMiner]
    /\ workerDiffs = [w \in Workers |-> NoDiff]
    /\ currentBlock = 1
    /\ height = 0
    /\ updating = [w \in Workers |-> 0]
    /\ vd = [id \in VdIds |-> NoVd]
    /\ clients = [w \in Workers |-> NoClient]
    /\ conn = [c \in Clients |-> "none"]
    /\ minerID = [c \in Clients |-> ""]
    /\ cdiff = [c \in Clients |-> NoDiff]
    /\ told = [c \in Clients |-> NoDiff]
    /\ sent = << >>
    /\ acct = [w \in Workers |-> [credited |-> 0, accepted |-> 0]]
    /\ acceptedSet = {}
    /\ nsub = 0
    /\ last = NoOp

\* The clock advances.  The pool reads it only to stamp an event and to
\* take the time since a share, so it is started at the first submission.
Tick(d) ==
    /\ nsub > 0
    /\ now + d <= MaxTime
    /\ now' = now + d
    /\ sent' = << >>
    /\ last' = NoOp
    /\ settle' = NoSettle
    /\ UNCHANGED <<payoutVars, minerStats, statVars, chain, lockVars>>
    /\ UNCHANGED <<pendingShares, balances, rounds, miners, workerDiffs,
                   currentBlock, height, updating, vd, clients, conn,
                   minerID, cdiff,  told, acct, acceptedSet, nsub>>

\* MiningPool.AddMiner, for a miner that is not registered yet
AddMiner(m) ==
    /\ ~miners[m].registered
    /\ InOrder(m)
    /\ miners' = [miners EXCEPT ![m] = [registered |-> TRUE,
                                        TotalShares |-> 0, LastSeen |-> now]]
    /\ sent' = << >>
    /\ last' = NoOp
    /\ settle' = NoSettle
    /\ UNCHANGED <<payoutVars, minerStats, statVars, chain, lockVars>>
    /\ UNCHANGED <<pendingShares, balances, rounds, now, workerDiffs,
                   currentBlock, height, updating, vd, clients, conn,
                   minerID, cdiff,  told, acct, acceptedSet, nsub>>

\* StratumServer.Start, one turn of the accept loop: the client starts
\* with the difficulty VarDiffManager.GetDifficulty("") returns.
\* Connections are numbered in the order in which they first subscribe or
\* authorize.
Accept(c) ==
    /\ conn[c] = "none"
    /\ \A b \in 1..(c - 1) :
           conn[b] # "none" /\ (told[b] # NoDiff \/ minerID[b] # "")
    /\ conn' = [conn EXCEPT ![c] = "open"]
    /\ vd' = [vd EXCEPT ![""] = GetMinerDiff(vd, "", now)]
    /\ cdiff' = [cdiff EXCEPT ![c] = GetMinerDiff(vd, "", now).currentDiff]
    /\ sent' = << >>
    /\ last' = NoOp
    /\ settle' = NoSettle
    /\ UNCHANGED <<payoutVars, minerStats, statVars, chain, lockVars>>
    /\ UNCHANGED <<pendingShares, balances, rounds, now, miners, workerDiffs,
                   currentBlock, height, updating, clients, minerID,  told, acct, acceptedSet, nsub>>

\* StratumClient.handleSubscribe.  A subscription that tells the client
\* the difficulty it was told last changes nothing but the messages sent,
\* so the action is taken when the difficulty told would change.
Subscribe(c) ==
    /\ conn[c] = "open"
    /\ told[c] # cdiff[c]
    /\ sent' = SubscribeReply(c, cdiff[c])
    /\ told' = Tell(told, sent')
    /\ last' = NoOp
    /\ settle' = NoSettle
    /\ UNCHANGED <<payoutVars, minerStats, statVars, chain, lockVars>>
    /\ UNCHANGED <<pendingShares, balances, rounds, now, miners, workerDiffs,
                   currentBlock, height, updating, vd, clients, conn,
                   minerID, cdiff,  acct, acceptedSet, nsub>>

\* StratumClient.handleAuthorize with a well-formed request, on a
\* connection that has not authorized before
Authorize(c, username) ==
    /\ conn[c] = "open"
    /\ minerID[c] = ""
    /\ InOrder(username)
    /\ minerID' = [minerID EXCEPT ![c] = username]
    /\ clients' = [clients EXCEPT ![username] = c]
    /\ sent' = AuthorizeReply(c, currentBlock, cdiff)
    /\ last' = NoOp
    /\ settle' = NoSettle
    /\ UNCHANGED <<payoutVars, minerStats, statVars, chain, lockVars>>
    /\ UNCHANGED <<pendingShares, balances, rounds, now, miners, workerDiffs,
                   currentBlock, height, updating, vd, conn, cdiff,  told, acct, acceptedSet, nsub>>

Bump(f, w) == [f EXCEPT ![w] = @ + 1]

\* a block taken whatever Blockchain.AddBlock answers
AppendedAlways(isBlock, chainOk) == isBlock

\* SubmitShare, "If share meets network difficulty, submit to blockchain":
\* the block is in the chain when AddBlock returns no error
Appended(isBlock, chainOk) == isBlock /\ chainOk

\* StratumClient.handleSubmit with four well-formed parameters, and the
\* MiningPool.SubmitShare it calls; chainOk is whether Blockchain.AddBlock
\* takes the block when the share meets the network difficulty, order the
\* order in which the broadcast ranges over the clients map.  The hash and
\* the nonce are the values parseHash and parseNonce return.
Submit(c, name, job, nonce, hash, chainOk, order) ==
    LET \* SubmitShare, "Record share for vardiff adjustment"
        rs == RecordShare(vd, name, now)
        vt == IF rs.changed THEN clients[name] ELSE NoClient
        vmsgs == IF vt = NoClient THEN << >>
                 ELSE <<Msg(vt, "set_difficulty", rs.vd.currentDiff)>>
        cdiff1 == IF vt = NoClient THEN cdiff
                  ELSE [cdiff EXCEPT ![vt] = rs.vd.currentDiff]
        \* "Get miner's specific difficulty"
        minerDiff == IF workerDiffs[name] = NoDiff THEN PoolDifficulty
                     ELSE workerDiffs[name]
        meets == MeetsDifficulty(hash, minerDiff)
        exists == miners[name].registered
        \* "Update miner statistics", "Add share for reward calculation"
        counted == meets /\ exists
        pending1 == IF counted THEN Bump(pendingShares, name)
                    ELSE pendingShares
        \* "If share meets network difficulty, submit to blockchain"
        isBlock == counted /\ MeetsDifficulty(hash, NetworkDifficulty)
        appended == Appended(isBlock, chainOk)
        ledger == IF appended THEN ProcessBlockReward(pending1, balances)
                  ELSE [pendingShares |-> pending1, balances |-> balances]
        block1 == IF appended THEN currentBlock + 1 ELSE currentBlock
        bmsgs == IF appended THEN Broadcast(order, clients, block1, cdiff1)
                 ELSE << >>
        err == IF ~meets THEN "share difficulty too low"
               ELSE IF ~exists THEN "miner not found"
               ELSE IF isBlock /\ ~chainOk THEN "failed to add block"
               ELSE ""
        ok == err = ""
    IN  /\ conn[c] = "open"
        /\ nsub < MaxSubmits
        /\ appended => height < MaxBlocks
        /\ ~isBlock => chainOk
        /\ order # WorkerSeq =>
               appended /\ \A w \in Workers : clients[w] # NoClient
        /\ InOrder(name)
        /\ nsub' = nsub + 1
        /\ vd' = [vd EXCEPT ![name] = rs.vd]
        /\ cdiff' = cdiff1
        /\ miners' = IF counted
                     THEN [miners EXCEPT ![name].TotalShares = @ + 1,
                                         ![name].LastSeen = now]
                     ELSE miners
        \* handleSubmit, "Record share for rewards"
        /\ pendingShares' = IF ok THEN Bump(ledger.pendingShares, name)
                            ELSE ledger.pendingShares
        /\ balances' = ledger.balances
        /\ settle' = IF appended
                     THEN [fresh |-> TRUE, shares |-> pending1,
                           before |-> balances]
                     ELSE NoSettle
        /\ rounds' = IF appended THEN rounds + 1 ELSE rounds
        /\ creditedTotal' = IF appended
                            THEN CreditSums(creditedTotal, balances,
                                            ledger.balances)
                            ELSE creditedTotal
        /\ lastCredit' = IF appended
                         THEN CreditRounds(lastCredit, balances,
                                           ledger.balances, rounds + 1)
                         ELSE lastCredit
        /\ UNCHANGED <<payout, cycles, retry, paidTotal>>
        \* neither SubmitShare nor handleSubmit records the share in a
        \* MinerStats
        /\ UNCHANGED <<minerStats, statVars, lockVars>>
        \* the block goes on the chain; createNewBlockTemplate takes the
        \* chain's latest block for the template's PreviousHash
        /\ chain' = IF appended
                    THEN [latest |-> chain.latest + 1,
                          previous |-> chain.latest + 1]
                    ELSE chain
        /\ currentBlock' = block1
        /\ height' = IF appended THEN height + 1 ELSE height
        \* "Update worker difficulty based on share time"
        /\ updating' = IF ok THEN Bump(updating, name) ELSE updating
        /\ sent' = vmsgs \o bmsgs
                   \o <<IF ok THEN Msg(c, "result", TRUE)
                        ELSE ErrorMsg(c, err)>>
        /\ told' = Tell(told, sent')
        /\ acct' = [acct EXCEPT
                      ![name].credited = @ + (IF counted THEN 1 ELSE 0)
                                           + (IF ok THEN 1 ELSE 0),
                      ![name].accepted = @ + (IF ok THEN 1 ELSE 0)]
        /\ acceptedSet' = IF ok THEN acceptedSet \cup {<<job, nonce>>}
                          ELSE acceptedSet
        /\ last' = [op |-> "submit", c |-> c, name |-> name,
                    bound |-> minerID[c],
                    reply |-> IF ok THEN "ok" ELSE err,
                    judged |-> minerDiff, met |-> meets,
                    told |-> told[c],
                    metTarget |-> MeetsDifficulty(hash, cdiff[c]),
                    block |-> isBlock,
                    stale |-> job \notin {currentBlock, currentBlock - 1},
                    dup |-> <<job, nonce>> \in acceptedSet]
        /\ UNCHANGED <<now, workerDiffs, clients, conn, minerID>>

\* UpdateWorkerDifficulty, the adjustment factor targetShareTime /
\* timeSinceLastShare clamped to [1/2, 2], as <<numerator, denominator>>;
\* within one second of the share the factor is the upper limit
WorkerAdjustment(since) ==
    IF 10 > 2 * since THEN <<2, 1>>
    ELSE IF 2 * 10 < since THEN <<1, 2>>
    ELSE <<10, since>>

\* MiningPool.UpdateWorkerDifficulty, run by the goroutine SubmitShare
\* started; zero is whether time.Since(miner.LastSeen) reads exactly 0
UpdateWorkerDifficulty(m, zero) ==
    LET since == now - miners[m].LastSeen
        adj == WorkerAdjustment(since)
        currentDiff == IF workerDiffs[m] = NoDiff THEN PoolDifficulty
                       ELSE workerDiffs[m]
        newDiff == (currentDiff * adj[1]) \div adj[2]
        runs == miners[m].registered /\ ~zero
        c == clients[m]
    IN  /\ updating[m] > 0
        /\ zero => since = 0
        /\ updating' = [updating EXCEPT ![m] = @ - 1]
        /\ workerDiffs' = IF runs THEN [workerDiffs EXCEPT ![m] = newDiff]
                          ELSE workerDiffs
        /\ cdiff' = IF runs /\ c # NoClient
                    THEN [cdiff EXCEPT ![c] = newDiff] ELSE cdiff
        /\ sent' = IF runs /\ c # NoClient
                   THEN <<Msg(c, "set_difficulty", newDiff)>> ELSE << >>
        /\ told' = Tell(told, sent')
        /\ last' = NoOp
        /\ settle' = NoSettle
        /\ UNCHANGED <<payoutVars, minerStats, statVars, chain, lockVars>>
        /\ UNCHANGED <<pendingShares, balances, rounds, now, miners,
                       currentBlock, height, vd, clients, conn, minerID,  acct, acceptedSet, nsub>>

Next ==
    \/ \E d \in TickSteps : Tick(d)
    \/ \E m \in Workers : AddMiner(m)
    \/ \E c \in Clients : Accept(c)
    \/ \E c \in Clients : Subscribe(c)
    \/ \E c \in Clients, u \in Workers : Authorize(c, u)
    \/ \E c \in Clients, u \in Workers, j \in JobIds, n \in Nonces,
          h \in Hashes, chainOk \in BOOLEAN, o \in MapOrders :
              Submit(c, u, j, n, h, chainOk, o)
    \/ \E m \in Workers, zero \in BOOLEAN : UpdateWorkerDifficulty(m, zero)

Spec == Init /\ [][Next]_vars

(***************************************************************************)
(* The reward ledger driven directly through its methods.                  *)
(***************************************************************************)
\* RewardManager.AddShare
AddShare(w) ==
    /\ pendingShares[w] < MaxPending
    /\ pendingShares' = Bump(pendingShares, w)
    /\ settle' = NoSettle
    /\ payout' = NoPayout
    /\ UNCHANGED <<balances, rounds, cycles, retry, paidTotal, creditedTotal,
                   lastCredit, minerStats, statVars, chain, lockVars,
                   poolVars>>

\* RewardManager.ProcessBlockReward
BlockFound ==
    LET r == ProcessBlockReward(pendingShares, balances)
    IN  /\ rounds < MaxRounds
        /\ pendingShares' = r.pendingShares
        /\ balances' = r.balances
        /\ settle' = [fresh |-> TRUE, shares |-> pendingShares,
                      before |-> balances]
        /\ rounds' = rounds + 1
        /\ creditedTotal' = CreditSums(creditedTotal, balances, r.balances)
        /\ lastCredit' = CreditRounds(lastCredit, balances, r.balances,
                                      rounds')
        /\ payout' = NoPayout
        /\ UNCHANGED <<cycles, retry, paidTotal, minerStats, statVars, chain, lockVars,
                   poolVars>>

\* RewardManager.ProcessPayouts, one turn of the loop of
\* StartPayoutProcessor, which logs an error and goes on; order is the
\* order the range over the balances takes
ProcessPayouts(order, ok) ==
    LET r == PayoutLoop(order, balances, ok)
    IN  /\ cycles < MaxCycles
        /\ ok \subseteq r.attempted
        /\ cycles' = cycles + 1
        /\ balances' = r.balances
        /\ payout' = [fresh |-> TRUE, attempted |-> r.attempted,
                      accepted |-> r.accepted, retry |-> retry,
                      amount |-> r.amount, before |-> balances]
        /\ retry' = r.attempted \ r.accepted
        /\ paidTotal' = [w \in Workers |->
                            IF w \in r.accepted
                            THEN BigAdd(paidTotal[w], r.amount[w])
                            ELSE paidTotal[w]]
        /\ settle' = NoSettle
        /\ UNCHANGED <<pendingShares, rounds, creditedTotal, lastCredit,
                       minerStats, statVars, chain, lockVars,
                   poolVars>>

NextLedger ==
    \/ \E w \in Workers : AddShare(w)
    \/ BlockFound
    \/ \E order \in MapOrders, ok \in SUBSET Workers :
          ProcessPayouts(order, ok)

SpecLedger == Init /\ [][NextLedger]_vars

(***************************************************************************)
(* The session layer with its failures: sessions that end and requests     *)
(* that are malformed.                                                     *)
(***************************************************************************)
\* the rest of the pool, which a step of one session's reader leaves alone
sessionFrame == <<pendingShares, balances, rounds, payoutVars, minerStats,
                  statVars, chain, lockVars,
                  now, miners, workerDiffs, currentBlock, height, updating,
                  vd, clients, minerID, cdiff, told, acct, acceptedSet,
                  nsub>>

Malformed(c) == [op |-> "malformed", c |-> c]

\* the process runs: no goroutine has panicked
Alive == \A c \in Clients : conn[c] # "killed"

\* handleConnection, the read fails (socket error or EOF): the handler
\* returns and the deferred c.conn.Close() runs
Close(c) ==
    /\ conn[c] = "open"
    /\ conn' = [conn EXCEPT ![c] = "closed"]
    /\ sent' = << >>
    /\ last' = NoOp
    /\ settle' = NoSettle
    /\ UNCHANGED sessionFrame

\* handleConnection, a line json.Unmarshal rejects: logged, and the next
\* line is read
BadLine(c) ==
    /\ conn[c] = "open"
    /\ sent' = << >>
    /\ last' = Malformed(c)
    /\ settle' = NoSettle
    /\ UNCHANGED <<conn, sessionFrame>>

\* handleAuthorize with fewer than two parameters ("Invalid parameters")
\* or with a username that is no string ("Invalid username")
BadAuthorize(c, message) ==
    /\ conn[c] = "open"
    /\ sent' = <<ErrorMsg(c, message)>>
    /\ last' = Malformed(c)
    /\ settle' = NoSettle
    /\ UNCHANGED <<conn, sessionFrame>>

\* handleSubmit with fewer than four parameters (short), or with four
\* parameters one of which is no string: the type assertion
\* req.Params[i].(string) panics, no goroutine recovers, and the process
\* dies with all its connections
BadSubmit(c, short) ==
    /\ conn[c] = "open"
    /\ sent' = IF short THEN <<ErrorMsg(c, "Invalid parameters")>>
               ELSE << >>
    /\ conn' = IF short THEN conn
               ELSE [d \in Clients |->
                        IF conn[d] = "none" THEN "none" ELSE "killed"]
    /\ last' = Malformed(c)
    /\ settle' = NoSettle
    /\ UNCHANGED sessionFrame

\* StratumClient.handleAuthorize with a well-formed request, on a
\* connection that has authorized under another username before
Reauthorize(c, username) ==
    /\ Alive
    /\ conn[c] = "open"
    /\ minerID[c] \notin {"", username}
    /\ InOrder(username)
    /\ minerID' = [minerID EXCEPT ![c] = username]
    /\ clients' = [clients EXCEPT ![username] = c]
    /\ sent' = AuthorizeReply(c, currentBlock, cdiff)
    /\ last' = NoOp
    /\ settle' = NoSettle
    /\ UNCHANGED <<payoutVars, minerStats, statVars, chain, lockVars>>
    /\ UNCHANGED <<pendingShares, balances, rounds, now, miners, workerDiffs,
                   currentBlock, height, updating, vd, conn, cdiff, told,
                   acct, acceptedSet, nsub>>

NextSessions ==
    \/ \E m \in Workers : Alive /\ AddMiner(m)
    \/ \E c \in Clients : Alive /\ Accept(c)
    \/ \E c \in Clients, u \in Workers : Alive /\ Authorize(c, u)
    \/ \E c \in Clients, u \in Workers, j \in JobIds, n \in Nonces,
          h \in Hashes, chainOk \in BOOLEAN, o \in MapOrders :
              Alive /\ Submit(c, u, j, n, h, chainOk, o)
    \/ \E c \in Clients : Close(c)
    \/ \E c \in Clients : BadLine(c)
    \/ \E c \in Clients,
          message \in {"Invalid parameters", "Invalid username"} :
              BadAuthorize(c, message)
    \/ \E c \in Clients, short \in BOOLEAN : BadSubmit(c, short)

SpecSessions == Init /\ [][NextSessions]_vars

\* the sessions that authorize again, with the shares they submit
NextReauth ==
    \/ \E m \in Workers : AddMiner(m)
    \/ \E c \in Clients : Accept(c)
    \/ \E c \in Clients, u \in Workers : Authorize(c, u)
    \/ \E c \in Clients, u \in Workers : Reauthorize(c, u)
    \/ \E c \in Clients, u \in Workers, j \in JobIds, n \in Nonces,
          h \in Hashes, chainOk \in BOOLEAN, o \in MapOrders :
              Submit(c, u, j, n, h, chainOk, o)

SpecReauth == Init /\ [][NextReauth]_vars

(***************************************************************************)
(* The variable-difficulty controller driven directly: the shares of the   *)
(* first worker, d seconds after its last.  After two intervals the worker *)
(* keeps its interval as long as the controller is collecting intervals    *)
(* for one adjustment.                                                     *)
(***************************************************************************)
vardiffFrame == <<pendingShares, balances, rounds, payoutVars, minerStats, statVars, chain,
                  lockVars,
                  miners, workerDiffs, currentBlock, height, updating,
                  clients, conn, minerID, acct, acceptedSet, nsub>>

\* what RecordShare does beyond the miner's state: adjustDifficulty,
\* "Notify stratum client"
VdNotify(id, rs) ==
    IF rs.changed /\ clients[id] # NoClient
    THEN <<Msg(clients[id], "set_difficulty", rs.vd.currentDiff)>>
    ELSE << >>

\* VarDiffManager.RecordShare(id), d seconds after the step before
VdShare(id, d) ==
    LET rs == RecordShare(vd, id, now + d)
        buf == vd[id].timeBuffer
    IN  /\ now + d <= MaxVdTime
        /\ Len(buf) >= 2 => d = buf[Len(buf)]
        /\ now' = now + d
        /\ vd' = [vd EXCEPT ![id] = rs.vd]
        /\ sent' = VdNotify(id, rs)
        /\ cdiff' = IF sent' = << >> THEN cdiff
                    ELSE [cdiff EXCEPT ![clients[id]] = rs.vd.currentDiff]
        /\ told' = Tell(told, sent')
        /\ last' = NoOp
        /\ settle' = NoSettle
        /\ UNCHANGED vardiffFrame

NextVardiff == \E d \in Intervals : VdShare(WorkerSeq[1], d)

SpecVardiff == Init /\ [][NextVardiff]_vars

(***************************************************************************)
(* The controller under a steady worker: the first worker's shares reach   *)
(* RecordShare every SteadyInterval seconds, for ever.  RecordShare reads   *)
(* the clock only to take the time since the last share and since the      *)
(* last retarget, so the clock is left where it is and the two times are   *)
(* moved back instead; a last retarget RetargetTime or more ago is kept    *)
(* as RetargetTime ago, which RecordShare cannot tell apart.               *)
(***************************************************************************)
SteadyInterval == TargetTime \div 2

\* a miner's vardiff state d seconds later, seen from the time t
Aged(m, d, t) ==
    IF ~m.exists THEN m
    ELSE [m EXCEPT !.lastRetarget = Max(@ - d, t - RetargetTime),
                   !.lastShareTime = IF @ = NoTime THEN NoTime ELSE @ - d]

\* VarDiffManager.RecordShare(id), SteadyInterval seconds after the last
SteadyShare(id) ==
    LET rs == RecordShare([vd EXCEPT ![id] = Aged(@, SteadyInterval, now)],
                          id, now)
    IN  /\ vd' = [vd EXCEPT ![id] = rs.vd]
        /\ sent' = VdNotify(id, rs)
        /\ cdiff' = IF sent' = << >> THEN cdiff
                    ELSE [cdiff EXCEPT ![clients[id]] = rs.vd.currentDiff]
        /\ told' = Tell(told, sent')
        /\ last' = NoOp
        /\ settle' = NoSettle
        /\ UNCHANGED <<now, vardiffFrame>>

NextSteady == SteadyShare(WorkerSeq[1])

\* the worker never stops submitting
SpecSteady == Init /\ [][NextSteady]_vars /\ WF_vars(NextSteady)

(***************************************************************************)
(* The goroutines on their way to the sockets.  A goroutine is a session's *)
(* handler that answers its client ("reply"), the goroutine of             *)
(* UpdateWorkerDifficulty that notifies the worker's client ("update"), or *)
(* a handler in SubmitShare for a share that meets the network difficulty  *)
(* ("submit"): it appends the block, notifies the clients of the registry  *)
(* and, back in handleSubmit, answers its own.  One Encode reaches the     *)
(* socket in MsgChunks writes.  Two more goroutines only read the pool:    *)
(* one turn of the loop of StartMining ("stats"), which takes MiningPool.mu *)
(* and calls GetTotalHashrate and GetActiveMiners, and a call of           *)
(* GetTotalHashrate from elsewhere ("read").                               *)
(***************************************************************************)
lockFrame == <<pendingShares, balances, settle, rounds, payoutVars,
               minerStats, statVars, chain, poolVars>>

\* the sequences of distinct clients: a registry, in the order of a range
\* over it
Registries ==
    {<<c>> : c \in Clients}
        \cup {<<c, d>> : <<c, d>> \in {x \in Clients \X Clients : x[1] # x[2]}}

\* goroutines are numbered in the order in which they start
Start(th, prog, c, ws) ==
    /\ pc[th].at = "idle"
    /\ \A u \in 1..(th - 1) : pc[u].at # "idle"
    /\ prog \in {"reply", "update"} => ws = <<c>>
    /\ prog \in {"stats", "read"} => c = 1 /\ ws = <<c>>
    /\ pc' = [pc EXCEPT ![th] =
                 IF prog = "reply"
                 THEN [at |-> "send", todo |-> <<c>>, reply |-> NoClient,
                       append |-> FALSE, n |-> 0]
                 ELSE IF prog = "update"
                 THEN [at |-> "pool", todo |-> <<c>>, reply |-> NoClient,
                       append |-> FALSE, n |-> 0]
                 ELSE IF prog = "stats"
                 THEN [at |-> "pool", todo |-> << >>, reply |-> NoClient,
                       append |-> FALSE, n |-> 0]
                 ELSE IF prog = "read"
                 THEN [at |-> "rlock", todo |-> << >>, reply |-> NoClient,
                       append |-> FALSE, n |-> 0]
                 ELSE [at |-> "pool", todo |-> ws, reply |-> c,
                       append |-> TRUE, n |-> 0]]
    /\ UNCHANGED <<poolMu, writeMu, wire, lockFrame>>

\* where a goroutine goes on once it has nothing to do at its place
After(th, todo, holdsPool) ==
    IF todo # << >> THEN "send"
    ELSE IF holdsPool THEN "unpool" ELSE "done"

\* the goroutines that hold MiningPool.mu for reading
Readers == {th \in Threads : pc[th].at = "reading"}

\* a read lock taken whoever holds the mutex
ReadLockFreeAlways(th) == TRUE

\* sync.RWMutex.RLock: no goroutine holds the mutex for writing, the
\* caller included
ReadLockFree(th) == poolMu = NoThread

\* SubmitShare, UpdateWorkerDifficulty, the loop of StartMining:
\* p.mu.Lock()
LockPool(th) ==
    /\ pc[th].at = "pool"
    /\ poolMu = NoThread
    /\ Readers = {}
    /\ poolMu' = th
    /\ pc' = [pc EXCEPT ![th].at = IF pc[th].append THEN "append"
                                   ELSE IF pc[th].todo = << >> THEN "rlock"
                                   ELSE "send"]
    /\ UNCHANGED <<writeMu, wire, lockFrame>>

\* SubmitShare: p.blockchain.AddBlock(block) returns
AppendBlock(th) ==
    /\ pc[th].at = "append"
    /\ pc' = [pc EXCEPT ![th].at = "send"]
    /\ UNCHANGED <<poolMu, writeMu, wire, lockFrame>>

\* sendResponse: c.mu.Lock()
LockWriter(th) ==
    LET c == Head(pc[th].todo)
    IN  /\ pc[th].at = "send"
        /\ WriterFree(c)
        /\ writeMu' = [writeMu EXCEPT ![c] = th]
        /\ pc' = [pc EXCEPT ![th].at = "encode", ![th].n = 0]
        /\ UNCHANGED <<poolMu, wire, lockFrame>>

\* sendResponse: c.encoder.Encode(response), one write to the socket; the
\* message is named by its goroutine and by whether it is a notification
\* sent under MiningPool.mu
WriteChunk(th) ==
    LET c == Head(pc[th].todo)
        n == pc[th].n + 1
    IN  /\ pc[th].at = "encode"
        /\ wire' = [wire EXCEPT ![c] = Append(@, <<th, poolMu = th, n>>)]
        /\ pc' = [pc EXCEPT ![th].n = n,
                            ![th].at = IF n = MsgChunks THEN "unlock"
                                       ELSE "encode"]
        /\ UNCHANGED <<poolMu, writeMu, lockFrame>>

\* sendResponse: the deferred c.mu.Unlock()
UnlockWriter(th) ==
    LET c == Head(pc[th].todo)
        rest == Tail(pc[th].todo)
    IN  /\ pc[th].at = "unlock"
        /\ writeMu' = [writeMu EXCEPT ![c] = NoThread]
        /\ pc' = [pc EXCEPT ![th].todo = rest,
                            ![th].at = After(th, rest, poolMu = th)]
        /\ UNCHANGED <<poolMu, wire, lockFrame>>

\* SubmitShare, UpdateWorkerDifficulty: the deferred p.mu.Unlock(); the
\* handler of a submit then answers its client
UnlockPool(th) ==
    /\ pc[th].at = "unpool"
    /\ poolMu' = NoThread
    /\ pc' = [pc EXCEPT ![th].todo = IF pc[th].reply = NoClient THEN << >>
                                     ELSE <<pc[th].reply>>,
                        ![th].reply = NoClient,
                        ![th].at = IF pc[th].reply = NoClient THEN "done"
                                   ELSE "send"]
    /\ UNCHANGED <<writeMu, wire, lockFrame>>

\* GetTotalHashrate, GetActiveMiners: p.mu.RLock()
RLockPool(th) ==
    /\ pc[th].at = "rlock"
    /\ ReadLockFree(th)
    /\ pc' = [pc EXCEPT ![th].at = "reading"]
    /\ UNCHANGED <<poolMu, writeMu, wire, lockFrame>>

\* GetTotalHashrate, GetActiveMiners: the deferred p.mu.RUnlock(); the
\* loop of StartMining calls the two, one after the other
RUnlockPool(th) ==
    /\ pc[th].at = "reading"
    /\ pc' = [pc EXCEPT ![th].n = @ + 1,
                        ![th].at = IF poolMu = th /\ pc[th].n = 0
                                   THEN "rlock"
                                   ELSE After(th, << >>, poolMu = th)]
    /\ UNCHANGED <<poolMu, writeMu, wire, lockFrame>>

NextLocks ==
    \/ \E th \in Threads,
          prog \in {"reply", "update", "submit", "stats", "read"},
          c \in Clients, ws \in Registries : Start(th, prog, c, ws)
    \/ \E th \in Threads : RLockPool(th)
    \/ \E th \in Threads : RUnlockPool(th)
    \/ \E th \in Threads : LockPool(th)
    \/ \E th \in Threads : AppendBlock(th)
    \/ \E th \in Threads : LockWriter(th)
    \/ \E th \in Threads : WriteChunk(th)
    \/ \E th \in Threads : UnlockWriter(th)
    \/ \E th \in Threads : UnlockPool(th)

SpecLocks == Init /\ [][NextLocks]_vars

\* a goroutine that can take a step, or can again and again, takes it: the
\* scheduler runs every goroutine, a mutex is handed to each goroutine that
\* waits for it, and the clients read their sockets
ThreadStep(th) ==
    \/ LockPool(th) \/ AppendBlock(th) \/ LockWriter(th) \/ WriteChunk(th)
    \/ UnlockWriter(th) \/ UnlockPool(th) \/ RLockPool(th)
    \/ RUnlockPool(th)

SpecLocksFair ==
    SpecLocks /\ \A th \in Threads : SF_vars(ThreadStep(th))

(***************************************************************************)
(* The goroutines as the locks and the shared variables they go through.   *)
(* A goroutine runs a program, a sequence of instructions <<op, what, c>>:  *)
(* op is "lock", "rlock", "unlock" or "runlock" on the mutex what, or       *)
(* "read" or "write" on the variable what; c is the client a mutex or a     *)
(* variable belongs to (0: the pool's or the server's).  A goroutine holds  *)
(* a mutex when the unlock of it is still before it.                        *)
(***************************************************************************)
\* StratumClient.sendResponse
SendResponseProg(c) ==
    <<<<"lock", "client.mu", c>>, <<"write", "conn", c>>,
      <<"unlock", "client.mu", c>>>>

\* StratumClient.sendWork
SendWorkProg(c) ==
    <<<<"read", "currentBlock", 0>>, <<"read", "difficulty", c>>>>
        \o SendResponseProg(c)

\* StratumClient.handleAuthorize with well-formed parameters
AuthorizeProg(c) ==
    <<<<"lock", "client.mu", c>>, <<"write", "minerID", c>>,
      <<"unlock", "client.mu", c>>,
      <<"lock", "server.mu", 0>>, <<"write", "clients", 0>>,
      <<"unlock", "server.mu", 0>>>>
        \o SendResponseProg(c) \o SendWorkProg(c)

\* MiningPool.UpdateWorkerDifficulty for a miner whose client is c
UpdateProg(c) ==
    <<<<"lock", "pool.mu", 0>>, <<"read", "miners", 0>>,
      <<"write", "workerDiffs", 0>>,
      <<"read", "clients", 0>>, <<"write", "difficulty", c>>>>
        \o SendResponseProg(c)
        \o <<<<"unlock", "pool.mu", 0>>>>

\* MiningPool.SubmitShare for a share with which RecordShare adjusts the
\* difficulty of the miner, whose client is c (adjustDifficulty, "Notify
\* stratum client"), and that does not meet the network difficulty
SubmitAdjustProg(c) ==
    <<<<"lock", "pool.mu", 0>>,
      <<"read", "clients", 0>>, <<"write", "difficulty", c>>>>
        \o SendResponseProg(c)
        \o <<<<"read", "workerDiffs", 0>>, <<"write", "miners", 0>>,
              <<"unlock", "pool.mu", 0>>>>

\* MiningPool.SubmitShare for a share that meets the network difficulty,
\* with c the one client of the registry: the new template and the
\* broadcast
SubmitBlockProg(c) ==
    <<<<"lock", "pool.mu", 0>>, <<"read", "workerDiffs", 0>>,
      <<"write", "miners", 0>>, <<"write", "currentBlock", 0>>,
      <<"rlock", "server.mu", 0>>, <<"read", "clients", 0>>>>
        \o SendWorkProg(c)
        \o <<<<"runlock", "server.mu", 0>>, <<"unlock", "pool.mu", 0>>>>

Programs(c) ==
    {AuthorizeProg(c), UpdateProg(c), SubmitAdjustProg(c),
     SubmitBlockProg(c)}

\* the first instruction of a program on the mutex <<what, c>>, if any
FirstOn(prog, what, c) ==
    LET on == {i \in 1..Len(prog) :
                 /\ prog[i][1] \in {"lock", "rlock", "unlock", "runlock"}
                 /\ prog[i][2] = what /\ prog[i][3] = c}
    IN  IF on = {} THEN "none"
        ELSE prog[CHOOSE i \in on : \A j \in on : i <= j][1]

HoldsWrite(th, what, c) == FirstOn(pc[th].todo, what, c) = "unlock"

HoldsRead(th, what, c) == FirstOn(pc[th].todo, what, c) = "runlock"

Running(th) == pc[th].at = "run" /\ pc[th].todo # << >>

raceFrame == <<pendingShares, balances, settle, rounds, payoutVars,
               minerStats, statVars, chain, poolVars, poolMu, writeMu,
               wire>>

\* a goroutine starts
Spawn(th, prog) ==
    /\ pc[th].at = "idle"
    /\ \A u \in 1..(th - 1) : pc[u].at # "idle"
    /\ pc' = [pc EXCEPT ![th] = [Idle EXCEPT !.at = "run", !.todo = prog]]
    /\ UNCHANGED raceFrame

\* sync.Mutex.Lock, sync.RWMutex.Lock and RLock
Acquire(th) ==
    LET ins == Head(pc[th].todo)
    IN  /\ Running(th)
        /\ ins[1] \in {"lock", "rlock"}
        /\ \A u \in Threads \ {th} :
              /\ ~HoldsWrite(u, ins[2], ins[3])
              /\ ins[1] = "lock" => ~HoldsRead(u, ins[2], ins[3])
        /\ pc' = [pc EXCEPT ![th].todo = Tail(@)]
        /\ UNCHANGED raceFrame

\* Unlock and RUnlock
Release(th) ==
    /\ Running(th)
    /\ Head(pc[th].todo)[1] \in {"unlock", "runlock"}
    /\ pc' = [pc EXCEPT ![th].todo = Tail(@)]
    /\ UNCHANGED raceFrame

\* a read or a write of a shared variable
Access(th) ==
    /\ Running(th)
    /\ Head(pc[th].todo)[1] \in {"read", "write"}
    /\ pc' = [pc EXCEPT ![th].todo = Tail(@)]
    /\ UNCHANGED raceFrame

NextRaces ==
    \/ \E th \in Threads, c \in Clients :
          \E prog \in Programs(c) : Spawn(th, prog)
    \/ \E th \in Threads : Acquire(th)
    \/ \E th \in Threads : Release(th)
    \/ \E th \in Threads : Access(th)

SpecRaces == Init /\ [][NextRaces]_vars

(***************************************************************************)
(* The pool next to the peer network: a peer's block message puts a block *)
(* on the chain the pool builds its templates on.                          *)
(***************************************************************************)
\* Network.handlePeer, a message of type MsgTypeBlock whose payload is a
\* block: n.blockchain.AddBlock
PeerBlock ==
    /\ Alive
    /\ chain.latest - height < MaxPeerBlocks
    /\ chain' = [chain EXCEPT !.latest = @ + 1]
    /\ sent' = << >>
    /\ last' = NoOp
    /\ settle' = NoSettle
    /\ UNCHANGED <<pendingShares, balances, rounds, payoutVars, minerStats,
                   statVars, lockVars, now, miners, workerDiffs,
                   currentBlock, height, updating, vd, clients, conn,
                   minerID, cdiff, told, acct, acceptedSet, nsub>>

NextTips ==
    \/ \E m \in Workers : AddMiner(m)
    \/ \E c \in Clients : Accept(c)
    \/ \E c \in Clients, u \in Workers : Authorize(c, u)
    \/ \E c \in Clients, u \in Workers, j \in JobIds, n \in Nonces,
          h \in Hashes, chainOk \in BOOLEAN, o \in MapOrders :
              Submit(c, u, j, n, h, chainOk, o)
    \/ \E m \in Workers, zero \in BOOLEAN : UpdateWorkerDifficulty(m, zero)
    \/ PeerBlock

\* the goroutines SubmitShare started are scheduled; nothing makes a
\* client submit or a peer send
SpecTips ==
    /\ Init /\ [][NextTips]_vars
    /\ \A m \in Workers :
          WF_vars(\E zero \in BOOLEAN : UpdateWorkerDifficulty(m, zero))

(***************************************************************************)
(* The statistics driven directly through their methods: the MinerStats of *)
(* the first worker and the PoolStats, d seconds after the step before.    *)
(***************************************************************************)
statsFrame == <<pendingShares, balances, settle, rounds, payoutVars,
                lockVars, chain, miners, workerDiffs, currentBlock, height,
                updating, vd, clients, conn, minerID, cdiff, told, sent,
                acct, acceptedSet, nsub, last>>

Records ==
    minerStats[WorkerSeq[1]].TotalShares + minerHist.BlocksFound
        + poolStats.BlocksFound

\* MinerStats.AddShare(difficulty, valid)
RecordShareStats(valid, d, e) ==
    /\ now' = now + d + e
    /\ minerStats' = [minerStats EXCEPT
                        ![WorkerSeq[1]] = StatsAddShare(@, valid)]
    /\ minerHist' = HistAddShare(minerHist, valid, now + d, e)
    /\ UNCHANGED <<poolStats, statsFrame>>

\* MinerStats.AddBlock()
RecordBlockStats(d) ==
    /\ now' = now + d
    /\ minerHist' = HistAddBlock(minerHist, now + d)
    /\ UNCHANGED <<minerStats, poolStats, statsFrame>>

\* PoolStats.AddBlock(height, hash, miner, reward)
RecordPoolBlock(d) ==
    /\ now' = now + d
    /\ poolStats' = PoolAddBlock(poolStats, poolStats.BlocksFound + 1,
                                 now + d)
    /\ UNCHANGED <<minerStats, minerHist, statsFrame>>

NextStats ==
    \/ \E valid \in BOOLEAN, d \in StatsSteps, e \in Elapsed :
          Records < MaxRecords /\ RecordShareStats(valid, d, e)
    \/ \E d \in StatsSteps : Records < MaxRecords /\ RecordBlockStats(d)
    \/ \E d \in StatsSteps : Records < MaxRecords /\ RecordPoolBlock(d)

SpecStats == Init /\ [][NextStats]_vars

(***************************************************************************)
(* The bounded histories filled: the share history of the first worker's   *)
(* MinerStats (a first share that is invalid, then valid ones), then the    *)
(* block history of the PoolStats, then the interval buffer of the first    *)
(* worker in the vardiff controller.  The three share no state, so one is   *)
(* filled after the other.                                                 *)
(***************************************************************************)
FillSteps == {7, 10}

NextBuffers ==
    \/ /\ minerStats[WorkerSeq[1]].TotalShares <= HistorySize
       /\ RecordShareStats(minerStats[WorkerSeq[1]].TotalShares > 0, 0, 0)
    \/ /\ minerStats[WorkerSeq[1]].TotalShares > HistorySize
       /\ poolStats.BlocksFound <= HistorySize
       /\ RecordPoolBlock(0)
    \/ /\ poolStats.BlocksFound > HistorySize
       /\ \E d \in FillSteps : VdShare(WorkerSeq[1], d)

SpecBuffers == Init /\ [][NextBuffers]_vars

(***************************************************************************)
(* Properties of the reward ledger (checked under SpecLedger).             *)
(***************************************************************************)
\* floor(distributable * n / total) in integer arithmetic
ExactShare(n, total) == BigDivSmall(BigMulSmall(RemainingReward, n), total).q

\* what the settlement of the last step added to the balance of w
Credited(w) == BigSub(balances[w], settle.before[w])

RECURSIVE CreditedFrom(_)
\* the sum of Credited over the workers WorkerSeq[i], WorkerSeq[i+1], ...
CreditedFrom(i) ==
    IF i > Len(WorkerSeq) THEN BigZero
    ELSE BigAdd(Credited(WorkerSeq[i]), CreditedFrom(i + 1))

\* C1: a settlement of S > 0 pending shares adds to the balance of every
\* worker holding n of them exactly floor((W - fee) * n / S), with
\* fee = floor(W * PoolFee / 100), and leaves the balance of a worker
\* without pending shares as it was.
C1_ExactProportionalCredit ==
    (settle.fresh /\ TotalShares(settle.shares) > 0) =>
        \A w \in Workers :
            balances[w] =
                IF settle.shares[w] > 0
                THEN BigAdd(settle.before[w],
                            ExactShare(settle.shares[w],
                                       TotalShares(settle.shares)))
                ELSE settle.before[w]

\* C2: reward conservation, the part the ledger's accounts can show: in a
\* settlement of S > 0 pending shares the credits of all workers together
\* never exceed the block reward less the pool fee (no unit is created).
C2_CreditsWithinDistributable ==
    (settle.fresh /\ TotalShares(settle.shares) > 0) =>
        BigCmp(CreditedFrom(1), RemainingReward) <= 0

(***************************************************************************)
(* Properties of the share pipeline (checked under Spec).                  *)
(***************************************************************************)
\* C3: for every worker the shares credited to the ledger's pending shares
\* (the AddShare calls made for it) are as many as its accepted shares,
\* the submissions answered with result true.
C3_CreditedEqualsAccepted ==
    \A w \in Workers : acct[w].credited = acct[w].accepted

\* C4: a submission of a session under the username it authorized, whose
\* <<job id, nonce>> was already accepted, from whatever session or worker,
\* is not accepted again.
C4_DuplicateRejected ==
    (last.op = "submit" /\ last.bound = last.name /\ last.dup) =>
        last.reply # "ok"

\* C5: an accepted share of a session that submits under the username it
\* authorized, and that has been sent a mining.set_difficulty, was judged
\* against the difficulty of the latest mining.set_difficulty sent to it.
C5_JudgedAgainstToldDifficulty ==
    (/\ last.op = "submit"
     /\ last.reply = "ok"
     /\ last.bound = last.name
     /\ last.told # NoDiff) => last.judged = last.told

\* C6: a share treated as a block-find (one that reached the network
\* difficulty check and passed it) met the difficulty of the session that
\* submitted it, as that session held it when the share arrived.
C6_BlockFindMetSessionTarget ==
    (last.op = "submit" /\ last.block) => last.metTarget

\* C7: a mining.submit on a session that has not authorized is rejected.
C7_SubmitBeforeAuthorizeRejected ==
    (last.op = "submit" /\ last.bound = "") => last.reply # "ok"

\* C8: a mining.submit of an authorized session that names another
\* username than the one the session authorized changes neither the share
\* credits nor the share counters of the worker it names.
C8_OnlyBoundWorkerAffected ==
    [][(/\ last'.op = "submit"
        /\ last'.bound # ""
        /\ last'.name # last'.bound) =>
           /\ acct'[last'.name] = acct[last'.name]
           /\ miners'[last'.name] = miners[last'.name]]_vars

\* C9: a mining.submit of a session under the username it authorized,
\* with a hash that meets the worker's difficulty, is not rejected because
\* the worker is unknown.
C9_AuthorizedWorkerIsKnown ==
    (last.op = "submit" /\ last.bound = last.name /\ last.met) =>
        last.reply # "miner not found"

\* C10: a mining.submit of a session under the username it authorized,
\* whose job id is neither the current job nor the previous one, is
\* rejected.
C10_StaleJobRejected ==
    (last.op = "submit" /\ last.bound = last.name /\ last.stale) =>
        last.reply # "ok"

\* the share counts of a worker's statistics
Judged(ms) == ms.ValidShares + ms.InvalidShares

\* C11: a submit whose hash does not meet the difficulty of the session's
\* worker is answered with the error [23, "low difficulty", null], raises
\* the worker's count of invalid shares by one, leaves the count of valid
\* shares and the ledger as they were and leaves the session open.
C11_LowDifficultyRejected ==
    [][(last'.op = "submit" /\ ~last'.met) =>
          /\ \E i \in 1..Len(sent') :
                sent'[i] = Msg(last'.c, "error", <<23, "low difficulty">>)
          /\ minerStats'[last'.name].InvalidShares
                = minerStats[last'.name].InvalidShares + 1
          /\ minerStats'[last'.name].ValidShares
                = minerStats[last'.name].ValidShares
          /\ pendingShares' = pendingShares
          /\ balances' = balances
          /\ conn'[last'.c] = "open"]_vars

\* C12: for every worker the valid and the invalid shares add up to the
\* submits processed for the worker: each submit raises the sum by one.
C12_SharesAddToSubmits ==
    [][last'.op = "submit" =>
          \A w \in Workers :
             Judged(minerStats'[w])
               = Judged(minerStats[w]) + (IF w = last'.name THEN 1 ELSE 0)]_vars

\* C13: the amount of an accepted payout transaction is the worker's
\* balance immediately before it and the balance is then zero; a worker
\* below the threshold is neither paid nor modified.
C13_PayoutIsWholeBalance ==
    payout.fresh =>
        \A w \in Workers :
           /\ w \in payout.accepted =>
                 /\ payout.amount[w] = payout.before[w]
                 /\ balances[w] = BigZero
           /\ BigCmp(payout.before[w], PayoutThreshold) < 0 =>
                 /\ w \notin payout.attempted
                 /\ balances[w] = payout.before[w]

\* a cycle that paid one worker a balance and passed over another
C13_Witness ==
    /\ payout.fresh
    /\ \E w, v \in Workers :
          /\ w \in payout.accepted
          /\ payout.amount[w] # BigZero
          /\ BigCmp(payout.before[v], PayoutThreshold) < 0
          /\ v \notin payout.attempted

\* C14: what the accepted payout transactions of a worker add up to never
\* exceeds what was credited to the worker: paid and balance together are
\* the credits, so no balance is paid twice, rejections of the sink
\* included.
C14_PaidWithinCredited ==
    \A w \in Workers :
       /\ BigAdd(paidTotal[w], balances[w]) = creditedTotal[w]
       /\ BigCmp(paidTotal[w], creditedTotal[w]) <= 0

\* a worker paid in the cycle after the sink rejected its transaction
C14_Witness ==
    /\ payout.fresh
    /\ \E w \in payout.accepted \cap payout.retry :
          paidTotal[w] # BigZero

\* C15: when the sink rejects a worker's transaction the balance is not
\* changed by the cycle, and the payout is attempted again in the next
\* cycle.
C15_RejectedIsRetried ==
    payout.fresh =>
        /\ \A w \in payout.attempted \ payout.accepted :
              balances[w] = payout.before[w]
        /\ payout.retry \subseteq payout.attempted

\* C16: a cycle emits a transaction for every worker whose balance has
\* reached the threshold, whatever the sink answers for the others.
C16_EveryEligiblePaid ==
    payout.fresh =>
        \A w \in Workers :
           BigCmp(payout.before[w], PayoutThreshold) >= 0 =>
               w \in payout.attempted

\* C17: a credit is not paid before its block is MaturityDepth
\* confirmations deep: the chain has grown by as many blocks since the
\* round of the credit.
C17_PaidAfterMaturity ==
    payout.fresh =>
        \A w \in payout.accepted :
           rounds >= lastCredit[w] + MaturityDepth

\* C18: after a round is settled the pending shares are empty, so that the
\* shares of a closed round count in no later round; a settlement without
\* pending shares leaves every balance as it was.
C18_RoundClosed ==
    settle.fresh =>
        /\ \A w \in Workers : pendingShares[w] = 0
        /\ TotalShares(settle.shares) = 0 => balances = settle.before

\* a round settled with shares of both workers pending
C18_Witness ==
    /\ settle.fresh
    /\ \A w \in Workers : settle.shares[w] > 0 /\ pendingShares[w] = 0

\* the notifications among the messages sent by the last step
Notified(msgs) == {i \in 1..Len(msgs) : msgs[i].kind = "notify"}

\* C19: when a share meets the network target and the chain rejects the
\* block, the share is credited to the worker's pending shares exactly
\* once and nothing of a block find happens: the round is not closed, the
\* balances and the template are as before and no mining.notify is sent.
C19_RejectedBlockOnlyCredits ==
    [][(last'.op = "submit" /\ last'.reply = "failed to add block") =>
          /\ pendingShares' = Bump(pendingShares, last'.name)
          /\ acct'[last'.name].credited = acct[last'.name].credited + 1
          /\ balances' = balances
          /\ rounds' = rounds
          /\ height' = height
          /\ currentBlock' = currentBlock
          /\ Notified(sent') = {}]_vars

\* a share that met the network target and whose block the chain rejected
C19_Witness ==
    /\ last.op = "submit"
    /\ last.block
    /\ last.reply = "failed to add block"
    /\ pendingShares[last.name] > 0

\* C20: a submit sends mining.notify only when its block was appended to
\* the chain, and then after the settlement of the round and with the
\* rebuilt template.
C20_NotifyAfterAppend ==
    [][(last'.op = "submit" /\ Notified(sent') # {}) =>
          /\ last'.block
          /\ height' = height + 1
          /\ rounds' = rounds + 1
          /\ settle'.fresh
          /\ balances' = ProcessBlockReward(settle'.shares,
                                            balances).balances
          /\ currentBlock' = currentBlock + 1
          /\ \A i \in Notified(sent') :
                sent'[i].val[1] = currentBlock']_vars

\* a block find whose new job was sent to an authorized session
C20_Witness ==
    /\ last.op = "submit"
    /\ last.block
    /\ settle.fresh
    /\ Notified(sent) # {}

\* C21: a broadcast of a new job reaches every authorized session, those
\* bound to the same worker as another session included.
C21_BroadcastReachesEverySession ==
    (last.op = "submit" /\ Notified(sent) # {}) =>
        \A c \in Clients :
           (conn[c] = "open" /\ minerID[c] # "") =>
               \E i \in Notified(sent) : sent[i].to = c

\* C27: an adjustment of the difficulty that a share triggered is applied
\* before the next mining.notify to the session: no notify is sent to a
\* session while an adjustment for its worker is still to run.
C27_AdjustedBeforeNextNotify ==
    [][\A i \in Notified(sent') :
          updating[minerID'[sent'[i].to]] = 0]_vars

\* C29: the difficulty a worker's shares are judged against, and every
\* difficulty sent in mining.set_difficulty, lies within
\* [MinimumDiff, MaximumDiff].
C29_DifficultyWithinLimits ==
    /\ \A w \in Workers :
          workerDiffs[w] # NoDiff =>
              workerDiffs[w] >= MinimumDiff /\ workerDiffs[w] <= MaximumDiff
    /\ \A i \in 1..Len(sent) :
          sent[i].kind = "set_difficulty" =>
              sent[i].val >= MinimumDiff /\ sent[i].val <= MaximumDiff

\* C26: on every session the result of mining.subscribe is sent before the
\* mining.set_difficulty with the session's difficulty, and the result
\* true of mining.authorize before the mining.notify with the current job;
\* each of the two notifications follows its response.
C26_HandshakeOrder ==
    /\ \A i \in 1..Len(sent) :
          sent[i].kind = "subscribed" =>
              /\ \E j \in (i + 1)..Len(sent) :
                    /\ sent[j].kind = "set_difficulty"
                    /\ sent[j].to = sent[i].to
                    /\ sent[j].val = cdiff[sent[i].to]
              /\ \A j \in 1..(i - 1) :
                    ~(sent[j].kind = "set_difficulty"
                        /\ sent[j].to = sent[i].to)
    /\ last.op = "none" =>
          /\ \A i \in Notified(sent) :
                /\ sent[i].val = <<currentBlock, cdiff[sent[i].to]>>
                /\ \E j \in 1..(i - 1) :
                      sent[j].kind = "result" /\ sent[j].to = sent[i].to
          /\ \A i \in 1..Len(sent) :
                sent[i].kind = "result" =>
                    \E j \in (i + 1)..Len(sent) :
                       j \in Notified(sent) /\ sent[j].to = sent[i].to

\* a session that subscribed has authorized and was sent the current job
C26_Witness ==
    /\ last.op = "none"
    /\ \E i \in Notified(sent) :
          /\ told[sent[i].to] # NoDiff
          /\ minerID[sent[i].to] # ""

\* C22: once a session has ended it is out of the registry: no message is
\* addressed to it any more.
C22_ClosedSessionNotAddressed ==
    \A i \in 1..Len(sent) : conn[sent[i].to] # "closed"

\* C25: a malformed request on one session never ends the pool and never
\* disturbs another session: the process lives on, and whatever is sent is
\* an error with code 20 to the session of the request.
C25_FaultConfined ==
    last.op = "malformed" =>
        /\ Alive
        /\ \A i \in 1..Len(sent) :
              /\ sent[i].to = last.c
              /\ sent[i].kind = "error"
              /\ sent[i].val[1] = 20

\* C30: one adjustment of the vardiff controller takes a difficulty d to a
\* d' with d * MinimumStep / 100 <= d' <= d * MaximumStep / 100, the clamp
\* to [MinimumDiff, MaximumDiff] included.
C30_StepWithinLimits ==
    [][\A id \in VdIds :
          (vd[id].exists /\ vd'[id].currentDiff # vd[id].currentDiff) =>
              /\ 100 * vd'[id].currentDiff
                    >= MinimumStep * vd[id].currentDiff
              /\ 100 * vd'[id].currentDiff
                    <= MaximumStep * vd[id].currentDiff]_vars

\* the limits of C28 for the steady worker: TargetTime / SteadyInterval
\* times the first difficulty, divided and multiplied by the largest step
SteadyLow ==
    (TargetTime * MinimumDiff * 100) \div (SteadyInterval * MaximumStep)

SteadyHigh ==
    (TargetTime * MinimumDiff * MaximumStep) \div (SteadyInterval * 100)

\* C28: under shares at a steady interval the difficulty of the worker
\* comes to lie within [SteadyLow, SteadyHigh] and stays there for ever.
C28_SteadyConverges ==
    <>[](/\ vd[WorkerSeq[1]].exists
         /\ vd[WorkerSeq[1]].currentDiff >= SteadyLow
         /\ vd[WorkerSeq[1]].currentDiff <= SteadyHigh)

\* the writes of one message: its first write here, all its writes next
\* to each other and in order
Whole(w, i) ==
    \A k \in 1..MsgChunks :
       i + k - 1 <= Len(w) => w[i + k - 1] = <<w[i][1], w[i][2], k>>

\* C23: what reaches a session's socket is a sequence of whole messages,
\* whatever goroutines write to it: the writes of two messages never
\* interleave.
C23_WritesSerialized ==
    \A c \in Clients :
       \A i \in 1..Len(wire[c]) :
          (i - 1) % MsgChunks = 0 => Whole(wire[c], i)

\* a response of a session's handler and a notification of another
\* goroutine, both whole, on one socket
C23_Witness ==
    \E c \in Clients :
       /\ Len(wire[c]) >= 2 * MsgChunks
       /\ \E i, j \in 1..Len(wire[c]) :
             /\ wire[c][i][1] # wire[c][j][1]
             /\ wire[c][i][2] /\ ~wire[c][j][2]

\* C24: no goroutine holds MiningPool.mu while it is at a place where it
\* can be suspended: in a write to a client's socket, waiting for a
\* client's mutex, or in the append to the chain.
C24_NoPoolMutexAcrossSuspension ==
    \A th \in Threads :
       pc[th].at \in {"append", "send", "encode"} => poolMu # th

\* the difficulty SubmitShare judges a worker's shares against
JudgedDiff(wd, w) == IF wd[w] = NoDiff THEN PoolDifficulty ELSE wd[w]

\* C31: a worker's difficulty changes only RetargetTime or more after the
\* worker's last retarget: a step less than RetargetTime after it leaves
\* the difficulty of the controller and the difficulty the worker's shares
\* are judged against as they are.
C31_RetargetsApart ==
    [][\A w \in Workers :
          (/\ vd[w].exists
           /\ \/ vd'[w].currentDiff # vd[w].currentDiff
              \/ JudgedDiff(workerDiffs', w) # JudgedDiff(workerDiffs, w))
             => now - vd[w].lastRetarget >= RetargetTime]_vars

\* the interval buffer of a miner once a share at time t is recorded
Buffered(m, t) ==
    IF m.lastShareTime # NoTime
    THEN PushInterval(m.timeBuffer, t - m.lastShareTime)
    ELSE m.timeBuffer

\* the difficulty adjustDifficulty would go to from the miner's, given the
\* buffer
Candidate(m, buf) ==
    LET adj == Adjustment(buf)
    IN  ClampDiff(MulDiv(m.currentDiff, adj[1], adj[2]))

\* an evaluation that is to change nothing: fewer than 2 intervals, a
\* variance above mean * VariancePercent / 100, or a candidate within 1% of
\* the difficulty
Skips(m, buf) ==
    \/ Len(buf) < 2
    \/ VarianceTooHigh(buf)
    \/ /\ 100 * Candidate(m, buf) >= 99 * m.currentDiff
       /\ 100 * Candidate(m, buf) <= 101 * m.currentDiff

C32_FewIntervals ==
    \E w \in Workers :
       /\ vd[w].exists /\ vd[w].lastShareTime = now
       /\ now - vd[w].lastRetarget >= RetargetTime
       /\ Len(vd[w].timeBuffer) < 2

C32_Noisy ==
    \E w \in Workers :
       /\ vd[w].exists /\ vd[w].lastShareTime = now
       /\ now - vd[w].lastRetarget >= RetargetTime
       /\ VarianceTooHigh(vd[w].timeBuffer)

\* C33: a mining.submit that is rejected leaves the state of the vardiff
\* controller (last share time, interval buffer, difficulty, last retarget
\* of every worker) as it was.
C33_RejectedLeavesVardiff ==
    [][(last'.op = "submit" /\ last'.reply # "ok") => vd' = vd]_vars

\* the state is that of a share just recorded in the MinerStats
ShareJustRecorded ==
    /\ minerHist.ShareHistory # << >>
    /\ now - minerHist.ShareHistory[Len(minerHist.ShareHistory)][1] <= 1

\* C34: after a record the recorded counter of every window is at least 1
\* and the window started no longer ago than its duration: after a share
\* in the MinerStats, after a block in the MinerStats, after a block in
\* the PoolStats.
C34_WindowsRollOnRecord ==
    \A d \in Durations :
       /\ ShareJustRecorded
             => /\ minerHist.Windows[d].Shares >= 1
                /\ now - minerHist.Windows[d].StartTime <= d + 1
       /\ minerHist.LastBlock = now
             => /\ minerHist.Windows[d].Blocks >= 1
                /\ now - minerHist.Windows[d].StartTime <= d
       /\ poolStats.LastBlockTime = now
             => /\ poolStats.Windows[d].Blocks >= 1
                /\ now - poolStats.Windows[d].StartTime <= d

\* the shares of a history whose timestamps lie within the last
\* HashrateWindow seconds before t
Within(h, t) == {i \in 1..Len(h) : h[i][1] >= t - HashrateWindow}

\* the timestamp of the oldest of the shares S of a history
Oldest(h, S) == CHOOSE x \in {h[i][1] : i \in S} : \A j \in S : x <= h[j][1]

\* C35: once a share is recorded the worker's current hashrate is the
\* number of shares of the last 10 minutes over the seconds since the
\* oldest of them, and it is zero when fewer than two shares lie within
\* the last 10 minutes.
C35_HashrateOfLastTenMinutes ==
    ShareJustRecorded =>
       LET h == minerHist.ShareHistory
           S == Within(h, now)
           rate == minerHist.CurrentHashrate
       IN  IF Cardinality(S) < 2 THEN rate.shares = 0
           ELSE now - Oldest(h, S) > 0
                  => rate.shares * (now - Oldest(h, S))
                        = Cardinality(S) * rate.over

\* C38: a goroutine that calls SubmitShare or UpdateWorkerDifficulty, and
\* so waits for MiningPool.mu, obtains it in the end and returns, whatever
\* the loop of StartMining does.
C38_PoolLockObtained ==
    \A th \in Threads :
       (pc[th].at = "pool" /\ pc[th].todo # << >>) ~> (pc[th].at = "done")

\* C36: when the chain's latest block is not the one the template was
\* built on, the template is rebuilt: in the end the template's
\* PreviousHash is the hash of the chain's latest block.
C36_TemplateFollowsTip ==
    (chain.previous # chain.latest) ~> (chain.previous = chain.latest)

\* new is old with one entry pushed at its end, the oldest entry evicted
\* when old held cap entries
Pushed(old, new, cap) ==
    /\ new # << >>
    /\ new = IF Len(old) < cap THEN Append(old, new[Len(new)])
             ELSE Append(Tail(old), new[Len(new)])

\* C37: the share history of a worker and the block history of the pool
\* hold at most HistorySize entries and a worker's interval buffer at most
\* BufferSize; a step that changes one of them pushes one entry and evicts
\* the oldest when it was full (an adjustment empties the interval
\* buffer); the first share of a worker adds no interval.
C37_HistoriesBounded ==
    /\ [](/\ Len(minerHist.ShareHistory) <= HistorySize
          /\ Len(poolStats.BlockHistory) <= HistorySize
          /\ \A id \in VdIds : Len(vd[id].timeBuffer) <= BufferSize)
    /\ [][/\ minerHist.ShareHistory' # minerHist.ShareHistory
             => Pushed(minerHist.ShareHistory, minerHist.ShareHistory',
                       HistorySize)
          /\ poolStats.BlockHistory' # poolStats.BlockHistory
             => Pushed(poolStats.BlockHistory, poolStats.BlockHistory',
                       HistorySize)
          /\ \A id \in VdIds :
                /\ vd[id].timeBuffer' # vd[id].timeBuffer
                   => \/ vd[id].timeBuffer' = << >>
                      \/ Pushed(vd[id].timeBuffer, vd[id].timeBuffer',
                                BufferSize)
                /\ vd[id].lastShareTime = NoTime
                   => vd[id].timeBuffer' = << >>]_vars

\* the three are full and each has lost its oldest entry
C37_Witness ==
    /\ Len(minerHist.ShareHistory) = HistorySize
    /\ minerStats[WorkerSeq[1]].TotalShares > HistorySize
    /\ Len(poolStats.BlockHistory) = HistorySize
    /\ poolStats.BlocksFound > HistorySize
    /\ Len(vd[WorkerSeq[1]].timeBuffer) = BufferSize
    /\ SeqSum(vd[WorkerSeq[1]].timeBuffer) < now - vd[WorkerSeq[1]].lastRetarget

\* two goroutines are at a read and a write, or at two writes, of the
\* variable <<what, c>>: nothing orders the two accesses
Races(what, c) ==
    \E th, u \in Threads :
       /\ th # u /\ Running(th) /\ Running(u)
       /\ Head(pc[th].todo) = <<"write", what, c>>
       /\ Head(pc[u].todo) \in {<<"read", what, c>>, <<"write", what, c>>}

\* C39: no read or write of the session registry runs next to a write of
\* it, and no read or write of a session's difficulty next to a write of
\* it: the accesses are made under a lock that guards them.
C39_RegistryAndDifficultyGuarded ==
    /\ ~Races("clients", 0)
    /\ \A c \in Clients : ~Races("difficulty", c)

\* C40: a session is in the registry under no username but the one it is
\* bound to.
C40_RegisteredUnderBoundIdentity ==
    \A w \in Workers :
       clients[w] # NoClient => minerID[clients[w]] = w

====
